---- MODULE Spec2Model ----
(***************************************************************************)
(* SafePath SensorDataScraper.py: the normalizer (convert_csv_to_json),    *)
(* the snapshot file sensor_data.json, the refresh loop                    *)
(* (start_auto_scraper / scrape_sensor_data), the module-level start-up    *)
(* code and the read handler get_sensor_data.                              *)
(***************************************************************************)
EXTENDS Integers, Sequences, FiniteSets, TLC

(***************************************************************************)
(* Bounds of the model.                                                    *)
(***************************************************************************)
\* longest raw-row sequence given to the normalizer specification
MaxRows == 2
\* refresh cycles started per process run (all loop workers together)
MaxCycles == 2
\* read requests served per process run
MaxReads == 2

(***************************************************************************)
(* SENSOR_CATEGORIES (lines 50-72): category order is the dict's insertion *)
(* order, sensor order is the list order.                                  *)
(***************************************************************************)
Categories ==
  << "rain_gauge", "flood_sensors", "street_flood_sensors",
     "flood_risk_index", "earthquake_sensors" >>

CategorySet == { Categories[i] : i \in 1..Len(Categories) }

StreetNames ==
  << "N.S. Amoranto Street", "New Greenland", "Kalantiaw Street", "F. Calderon Street",
     "Christine Street", "Ramon Magsaysay Brgy Hall", "Phil-Am", "Holy Spirit",
     "Libis", "South Triangle", "Nagkaisang Nayon", "Tandang Sora", "Talipapa" >>

SENSOR_CATEGORIES ==
  [ rain_gauge |->
      << "QCPU", "Masambong", "Batasan Hills", "Ugong Norte", "Ramon Magsaysay HS",
         "UP Village", "Dona Imelda", "Kaligayahan", "Emilio Jacinto Sr HS", "Payatas ES",
         "Ramon Magsaysay Brgy Hall", "Phil-Am", "Holy Spirit", "Libis",
         "South Triangle", "Nagkaisang Nayon", "Tandang Sora", "Talipapa",
         "Brgy Fairview (REC)", "Brgy Baesa Hall", "Brgy N.S Amoranto Hall",
         "Brgy Valencia Hall" >>,
    flood_sensors |->
      << "North Fairview", "Batasan-San Mateo", "Bahay Toro", "Sta Cruz", "San Bartolome" >>,
    street_flood_sensors |-> StreetNames,
    flood_risk_index |-> StreetNames,
    earthquake_sensors |-> << "QCDRRMO", "QCDRRMO REC" >> ]

Range(s) == { s[i] : i \in 1..Len(s) }

(***************************************************************************)
(* Strings.  TLC cannot look inside a string, so the three string          *)
(* functions the code uses are tabulated over the strings of the model:    *)
(* str.casefold(), the test '"m" in s', and pandas' NA / number parsing.   *)
(***************************************************************************)
FoldTable ==
    "QCPU" :> "qcpu" @@
    "Masambong" :> "masambong" @@
    "Batasan Hills" :> "batasan hills" @@
    "Ugong Norte" :> "ugong norte" @@
    "Ramon Magsaysay HS" :> "ramon magsaysay hs" @@
    "UP Village" :> "up village" @@
    "Dona Imelda" :> "dona imelda" @@
    "Kaligayahan" :> "kaligayahan" @@
    "Emilio Jacinto Sr HS" :> "emilio jacinto sr hs" @@
    "Payatas ES" :> "payatas es" @@
    "Ramon Magsaysay Brgy Hall" :> "ramon magsaysay brgy hall" @@
    "Phil-Am" :> "phil-am" @@
    "Holy Spirit" :> "holy spirit" @@
    "Libis" :> "libis" @@
    "South Triangle" :> "south triangle" @@
    "Nagkaisang Nayon" :> "nagkaisang nayon" @@
    "Tandang Sora" :> "tandang sora" @@
    "Talipapa" :> "talipapa" @@
    "Brgy Fairview (REC)" :> "brgy fairview (rec)" @@
    "Brgy Baesa Hall" :> "brgy baesa hall" @@
    "Brgy N.S Amoranto Hall" :> "brgy n.s amoranto hall" @@
    "Brgy Valencia Hall" :> "brgy valencia hall" @@
    "North Fairview" :> "north fairview" @@
    "Batasan-San Mateo" :> "batasan-san mateo" @@
    "Bahay Toro" :> "bahay toro" @@
    "Sta Cruz" :> "sta cruz" @@
    "San Bartolome" :> "san bartolome" @@
    "N.S. Amoranto Street" :> "n.s. amoranto street" @@
    "New Greenland" :> "new greenland" @@
    "Kalantiaw Street" :> "kalantiaw street" @@
    "F. Calderon Street" :> "f. calderon street" @@
    "Christine Street" :> "christine street" @@
    "QCDRRMO" :> "qcdrrmo" @@
    "QCDRRMO REC" :> "qcdrrmo rec" @@
    "Marikina River" :> "marikina river"

\* str.casefold(): a string without upper-case letters folds to itself
casefold(s) == IF s \in DOMAIN FoldTable THEN FoldTable[s] ELSE s

\* the strings of the model that contain the letter "m" (line 189)
StringsWithM == { "0.35m", "1.0m", "0.0m" }

\* pandas' default NA markers among the strings of the model
NAStrings == { "", "N/A" }

\* the strings of the model that parse as a number, with the float's repr
NumberTable == "1.2" :> "1.2"

(***************************************************************************)
(* Values of a DataFrame cell and of a JSON scalar.                        *)
(***************************************************************************)
Str(s) == [t |-> "str", v |-> s]
Num(s) == [t |-> "num", v |-> s]
NaN == [t |-> "nan", v |-> "NaN"]

\* str(value) as line 189 takes it
PyStr(val) == IF val.t = "nan" THEN "nan" ELSE val.v

(***************************************************************************)
(* The raw rows the extractor can produce (lines 138-154): five stripped   *)
(* text cells per row.                                                     *)
(***************************************************************************)
RawNames ==
  { "qcpu", "North Fairview", "north fairview", "Phil-Am", "Holy Spirit",
    "Marikina River", "" }
RawCurrents == { "0.35m", "1.2" }
RawLevels == { <<"1.0m", "ok">>, <<"N/A", "">> }

RawRow(n, c, l) ==
  [name |-> n, obs |-> "12:00", normal |-> l[1], current |-> c, description |-> l[2]]

\* the cells of a row but its name: a depth comes with its normal level, a
\* plain number with or without one
RawReadings ==
  { cl \in RawCurrents \X RawLevels : cl[1] \in StringsWithM => cl[2][1] \in StringsWithM }

RawRowSet == { RawRow(n, cl[1], cl[2]) : n \in RawNames, cl \in RawReadings }

RECURSIVE SeqsUpTo(_, _)
SeqsUpTo(S, n) ==
  IF n = 0 THEN { <<>> }
  ELSE LET shorter == SeqsUpTo(S, n - 1)
       IN shorter \cup { Append(q, x) : q \in { r \in shorter : Len(r) = n - 1 }, x \in S }

(***************************************************************************)
(* pd.read_csv (line 178) of what DataFrame.to_csv wrote (lines 173-174):  *)
(* an NA marker becomes NaN; a column whose other cells all parse as       *)
(* numbers becomes numeric, any other column keeps its strings.            *)
(***************************************************************************)
ColumnIsNumeric(cells) == \A s \in cells : s \in NAStrings \/ s \in DOMAIN NumberTable

ParseCell(s, numeric) ==
  IF s \in NAStrings THEN NaN
  ELSE IF numeric THEN Num(NumberTable[s]) ELSE Str(s)

read_csv(rows) ==
  LET col(f) == { rows[i][f] : i \in 1..Len(rows) }
  IN [ i \in 1..Len(rows) |->
        [ name        |-> ParseCell(rows[i].name, ColumnIsNumeric(col("name"))),
          obs         |-> ParseCell(rows[i].obs, ColumnIsNumeric(col("obs"))),
          normal      |-> ParseCell(rows[i].normal, ColumnIsNumeric(col("normal"))),
          current     |-> ParseCell(rows[i].current, ColumnIsNumeric(col("current"))),
          description |-> ParseCell(rows[i].description, ColumnIsNumeric(col("description"))) ] ]

\* the .str accessor of line 200 raises AttributeError on a non-object column
StrAccessorRaises(df) == \A i \in 1..Len(df) : df[i].name.t # "str"

(***************************************************************************)
(* convert_csv_to_json (lines 177-224), the computation of                 *)
(* categorized_data.                                                       *)
(***************************************************************************)
\* a variant of CategoryOf that takes every textual value for a depth
CategoryOf_AnyText(current_value) ==
  IF current_value.t = "str" THEN "street_flood_sensors" ELSE "flood_risk_index"

\* lines 189-194: the unit-marker rule of the first pass
CategoryOf(current_value) ==
  IF PyStr(current_value) \in StringsWithM THEN "street_flood_sensors" ELSE "flood_risk_index"

\* lines 185-192: the record the first pass builds for a row
FirstPassEntry(row, category) ==
  IF category = "street_flood_sensors"
  THEN [name |-> row.name.v, current |-> row.current,
        normal |-> row.normal, description |-> row.description]
  ELSE [name |-> row.name.v, current |-> row.current]

\* line 195: Python's 'in' on the registry list, an exact comparison
InRegistry(sensor_name, category) ==
  sensor_name.t = "str" /\ sensor_name.v \in Range(SENSOR_CATEGORIES[category])

\* lines 180-196: one pass over the rows in file order
RECURSIVE FirstPass(_, _, _)
FirstPass(df, i, data) ==
  IF i > Len(df) THEN data
  ELSE LET row == df[i]
           category == CategoryOf(row.current)
       IN FirstPass(df, i + 1,
            IF InRegistry(row.name, category)
            THEN [data EXCEPT ![category] = Append(@, FirstPassEntry(row, category))]
            ELSE data)

\* a variant of MatchingSensor that compares the names as they are spelled
MatchingSensor_CaseSensitive(df, sensor_name) ==
  SelectSeq(df, LAMBDA row : row.name.t = "str" /\ row.name.v = sensor_name)

\* line 200: the rows whose folded name equals the folded expected name
MatchingSensor(df, sensor_name) ==
  SelectSeq(df, LAMBDA row : row.name.t = "str" /\ casefold(row.name.v) = casefold(sensor_name))

\* lines 202-212: the record built from the first matching row
FoundEntry(category, sensor_name, row) ==
  IF category \in {"flood_sensors"}
  THEN [name |-> sensor_name, current |-> row.current,
        normal |-> row.normal, description |-> row.description]
  ELSE [name |-> sensor_name, current |-> row.current]

\* a variant of SentinelEntry that attaches the "N/A" fields to no category
SentinelEntry_NoLevels(category, sensor_name) ==
  [name |-> sensor_name,
   current |-> IF category = "street_flood_sensors" THEN Str("0.0m") ELSE Num("0.0")]

\* lines 214-221: the record for an expected sensor without a row
SentinelEntry(category, sensor_name) ==
  LET current == IF category = "street_flood_sensors" THEN Str("0.0m") ELSE Num("0.0")
  IN IF category \in {"flood_sensors"}
     THEN [name |-> sensor_name, current |-> current,
           normal |-> Str("N/A"), description |-> Str("N/A")]
     ELSE [name |-> sensor_name, current |-> current]

\* line 198: the categories the second pass fills
GapFilled(category) == category \notin {"street_flood_sensors", "flood_risk_index"}

\* a variant of SecondPass that walks the expected names from the last to the
\* first
SecondPass_Reversed(df, category) ==
  LET sensors == SENSOR_CATEGORIES[category]
      n == Len(sensors)
  IN [ k \in 1..n |->
        LET matching_sensor == MatchingSensor(df, sensors[n + 1 - k])
        IN IF matching_sensor # <<>>
           THEN FoundEntry(category, sensors[n + 1 - k], matching_sensor[1])
           ELSE SentinelEntry(category, sensors[n + 1 - k]) ]

\* a variant of SecondPass that takes the last matching row
SecondPass_LastMatch(df, category) ==
  LET sensors == SENSOR_CATEGORIES[category]
  IN [ k \in 1..Len(sensors) |->
        LET matching_sensor == MatchingSensor(df, sensors[k])
        IN IF matching_sensor # <<>>
           THEN FoundEntry(category, sensors[k], matching_sensor[Len(matching_sensor)])
           ELSE SentinelEntry(category, sensors[k]) ]

\* lines 199-221: one record per expected name, in registry order
SecondPass(df, category) ==
  LET sensors == SENSOR_CATEGORIES[category]
  IN [ k \in 1..Len(sensors) |->
        LET matching_sensor == MatchingSensor(df, sensors[k])
        IN IF matching_sensor # <<>>
           THEN FoundEntry(category, sensors[k], matching_sensor[1])
           ELSE SentinelEntry(category, sensors[k]) ]

\* lines 179-221
categorized_data(df) ==
  LET first == FirstPass(df, 1, [c \in CategorySet |-> <<>>])
  IN [ c \in CategorySet |-> IF GapFilled(c) THEN SecondPass(df, c) ELSE first[c] ]

(***************************************************************************)
(* json.dump / json.load (lines 223, 230).  The document is written as one *)
(* chunk per category, in dict order; the last chunk carries the closing   *)
(* brace, so only a buffer of all the chunks is a JSON document.           *)
(***************************************************************************)
NumChunks == Len(Categories)

json_dump(doc) == [ i \in 1..NumChunks |-> [key |-> Categories[i], val |-> doc[Categories[i]]] ]

\* the zero bytes a write past the end of the file leaves before it
Hole == [key |-> "", val |-> <<>>]

JSONDecodeError(buf) == Len(buf) # NumChunks \/ \E i \in 1..Len(buf) : buf[i] = Hole

json_load(buf) ==
  [ c \in { buf[i].key : i \in 1..Len(buf) } |->
      buf[CHOOSE i \in 1..Len(buf) :
            buf[i].key = c /\ \A j \in 1..Len(buf) : buf[j].key = c => j <= i].val ]

\* a variant of EmptyDocument that leaves out the last category
EmptyDocument_Short == [ key \in CategorySet \ {"earthquake_sensors"} |-> <<>> ]

\* line 235: the fallback document
EmptyDocument == [ key \in CategorySet |-> <<>> ]

(***************************************************************************)
(* The process.  Module 1 is the module as the interpreter first executes  *)
(* it; module 2 is the copy uvicorn imports from the import string         *)
(* "SensorDataScraper:app" when module 1 ran as __main__ (lines 251-253).  *)
(* Each module copy has a bootstrap call (line 37) and a loop thread       *)
(* (lines 248-249) that run scrape_sensor_data.                            *)
(***************************************************************************)
Mods == {1, 2}
Boot(i) == IF i = 1 THEN "boot1" ELSE "boot2"
Loop(i) == IF i = 1 THEN "loop1" ELSE "loop2"
Runners == { Boot(i) : i \in Mods } \cup { Loop(i) : i \in Mods }
ModOf(r) == IF r \in {"boot1", "loop1"} THEN 1 ELSE 2
IsLoop(r) == r \in { Loop(i) : i \in Mods }

\* wait_for_page_load's default max_retries (line 111)
max_retries == 3

\* the pages the live site shows in the process specification
PageA == << RawRow("QCPU", "1.2", <<"N/A", "">>), RawRow("Phil-Am", "0.35m", <<"1.0m", "ok">>) >>
PageB == << RawRow("North Fairview", "0.35m", <<"1.0m", "ok">>) >>
PageNoNames == << RawRow("", "1.2", <<"N/A", "">>) >>
Pages == { <<>>, PageB, PageNoNames }

VARIABLES
  entry,        \* "script": python SensorDataScraper.py; "import": an ASGI server imports it
  mpc,          \* per module copy: position in the module-level code
  bound,        \* per module copy: is the name scrape_sensor_data bound yet (line 128)
  pc,           \* per runner: position in start_auto_scraper / scrape_sensor_data
  driver,       \* per runner: scrape_sensor_data's local driver is set
  attempt,      \* per runner: wait_for_page_load's loop variable
  sensor_data,  \* per runner: scrape_sensor_data's local list of rows
  chunks,       \* per runner: the serialized categorized_data being written
  woff,         \* per runner: chunks written so far through its open file
  err,          \* per runner: the exception in flight ("" when none)
  csvFile,      \* sensor_data.csv
  jsonFile,     \* sensor_data.json
  cycles,       \* refresh cycles started
  rpc,          \* get_sensor_data: "idle" or "reading"
  rbuf,         \* get_sensor_data: what f.read() has collected
  reads,        \* read requests completed
  response,     \* what the last completed get_sensor_data returned, and from what
  rpub,         \* history: had a cycle published when the current read began
  rquiet,       \* history: the current read began over a whole snapshot and no
                \* cycle has opened or written sensor_data.json since
  ran,          \* history, per runner: the persistence steps its current cycle took
  quits,        \* history, per runner: the calls of driver.quit() in the call of
                \* scrape_sensor_data that has just returned
  lastGood,     \* history: the last complete document sensor_data.json has held
  published,    \* history: the snapshots successful cycles have written
  bootlog       \* history, per module copy: what the bootstrap (lines 33-39) did

vars == << entry, mpc, bound, pc, driver, attempt, sensor_data, chunks, woff, err,
           csvFile, jsonFile, cycles, rpc, rbuf, reads, response, rpub, rquiet,
           ran, quits, published, lastGood, bootlog >>

modVars == << entry, mpc, bound, bootlog >>
readVars == << rpc, rbuf, reads, response, rpub, rquiet >>
localVars == << driver, attempt, sensor_data, chunks, woff >>

AbsentFile == [exists |-> FALSE, content |-> <<>>]
FileOf(content) == [exists |-> TRUE, content |-> content]

\* the snapshot document convert_csv_to_json computes from persisted rows
Snapshot(rows) == categorized_data(read_csv(rows))

\* a response: the returned document, and as history whether the file existed
\* at open, the text f.read() returned, and rpub
Response(kind, doc, exists, text, pub) ==
  [kind |-> kind, doc |-> doc, exists |-> exists, text |-> text, pub |-> pub]

NoResponse == Response("none", EmptyDocument, FALSE, <<>>, FALSE)

TypeOK ==
  /\ entry \in {"script", "import"}
  /\ mpc \in [Mods -> {"idle", "boot", "boot_wait", "defs", "thread", "main", "run", "done"}]
  /\ bound \in [Mods -> BOOLEAN]
  /\ pc \in [Runners -> {"idle", "call", "setup", "load", "extract", "save", "save_write",
                         "convert", "open", "dump", "finally", "sleep"}]
  /\ driver \in [Runners -> BOOLEAN]
  /\ quits \in [Runners -> 0..1]
  /\ attempt \in [Runners -> 0..(max_retries - 1)]
  /\ woff \in [Runners -> 0..NumChunks]
  /\ cycles \in 0..MaxCycles
  /\ rpc \in {"idle", "reading"}
  /\ rquiet \in BOOLEAN
  /\ reads \in 0..MaxReads

(***************************************************************************)
(* The state when the interpreter starts executing the module: the files   *)
(* are absent, or are those an earlier run of the program left behind.     *)
(***************************************************************************)
InitLocals ==
  /\ pc = [r \in Runners |-> "idle"]
  /\ driver = [r \in Runners |-> FALSE]
  /\ attempt = [r \in Runners |-> 0]
  /\ sensor_data = [r \in Runners |-> <<>>]
  /\ chunks = [r \in Runners |-> <<>>]
  /\ woff = [r \in Runners |-> 0]
  /\ err = [r \in Runners |-> ""]
  /\ ran = [r \in Runners |-> {}]
  /\ quits = [r \in Runners |-> 0]
  /\ lastGood = jsonFile
  /\ published = {}
  /\ cycles = 0
  /\ rpc = "idle" /\ rbuf = <<>> /\ reads = 0 /\ response = NoResponse /\ rpub = FALSE
  /\ rquiet = FALSE

InitFiles(earlier) ==
  \/ csvFile = AbsentFile /\ jsonFile = AbsentFile
  \/ \E rows \in earlier :
       /\ csvFile = FileOf(rows)
       /\ jsonFile = FileOf(json_dump(Snapshot(rows)))

Start(how) ==
  /\ entry = how
  /\ mpc = [i \in Mods |-> IF i = 1 THEN "boot" ELSE "idle"]
  /\ bound = [i \in Mods |-> FALSE]
  /\ bootlog = [i \in Mods |-> "none"]
  /\ InitFiles({PageA})
  /\ InitLocals

\* the module is imported by an ASGI server ("uvicorn SensorDataScraper:app")
Init == Start("import")

(***************************************************************************)
(* Module-level code.                                                      *)
(***************************************************************************)
BeginCycle(r) ==
  /\ ran' = [ran EXCEPT ![r] = {}]
  /\ UNCHANGED quits

\* a variant of bootstrap without the except clause of line 38: the exception
\* of line 37 ends the execution of the module
bootstrap_Uncaught(i) ==
  /\ mpc[i] = "boot"
  /\ IF jsonFile.exists
     THEN /\ mpc' = [mpc EXCEPT ![i] = "defs"]
          /\ bootlog' = [bootlog EXCEPT ![i] = "found"]
     ELSE /\ mpc' = [mpc EXCEPT ![i] = "idle"]
          /\ bootlog' = [bootlog EXCEPT ![i] = "NameError"]
  /\ UNCHANGED << entry, bound, pc, localVars, err, csvFile, jsonFile, cycles, readVars,
                  ran, quits, published, lastGood >>

\* lines 33-39: the name scrape_sensor_data is looked up when line 37 runs;
\* an unbound name raises NameError, which line 38 catches
bootstrap(i) ==
  /\ mpc[i] = "boot"
  /\ IF jsonFile.exists
     THEN /\ mpc' = [mpc EXCEPT ![i] = "defs"]
          /\ bootlog' = [bootlog EXCEPT ![i] = "found"]
          /\ UNCHANGED << pc, ran, quits >>
     ELSE IF bound[i]
     THEN /\ mpc' = [mpc EXCEPT ![i] = "boot_wait"]
          /\ bootlog' = [bootlog EXCEPT ![i] = "scraped"]
          /\ pc' = [pc EXCEPT ![Boot(i)] = "setup"]
          /\ BeginCycle(Boot(i))
     ELSE /\ mpc' = [mpc EXCEPT ![i] = "defs"]
          /\ bootlog' = [bootlog EXCEPT ![i] = "NameError"]
          /\ UNCHANGED << pc, ran, quits >>
  /\ UNCHANGED << entry, bound, localVars, err, csvFile, jsonFile, cycles, readVars,
                  published, lastGood >>

\* lines 41-235: middleware, registry, the def statements and the route
definitions(i) ==
  /\ mpc[i] = "defs"
  /\ mpc' = [mpc EXCEPT ![i] = "thread"]
  /\ bound' = [bound EXCEPT ![i] = TRUE]
  /\ UNCHANGED << entry, bootlog, pc, localVars, err, csvFile, jsonFile, cycles, readVars,
                  ran, quits, published, lastGood >>

\* lines 248-249
scraper_thread(i) ==
  /\ mpc[i] = "thread"
  /\ mpc' = [mpc EXCEPT ![i] = "main"]
  /\ pc' = [pc EXCEPT ![Loop(i)] = "call"]
  /\ UNCHANGED << entry, bound, bootlog, localVars, err, csvFile, jsonFile, cycles, readVars,
                  ran, quits, published, lastGood >>

\* lines 251-253: as __main__ the module hands the import string to uvicorn,
\* which imports the file again as module "SensorDataScraper"
main(i) ==
  /\ mpc[i] = "main"
  /\ IF i = 1 /\ entry = "script"
     THEN mpc' = [mpc EXCEPT ![1] = "run", ![2] = "boot"]
     ELSE mpc' = [mpc EXCEPT ![i] = "done"]
  /\ UNCHANGED << entry, bound, bootlog, pc, localVars, err, csvFile, jsonFile, cycles,
                  readVars, ran, quits, published, lastGood >>

\* the server answers requests once the served module copy is imported
Serving == IF entry = "script" THEN mpc[2] = "done" ELSE mpc[1] = "done"

\* the route of line 226 exists in module copy i
RouteRegistered(i) == mpc[i] \in {"thread", "main", "run", "done"}

(***************************************************************************)
(* start_auto_scraper and scrape_sensor_data, one action per step that     *)
(* other threads can observe.                                              *)
(***************************************************************************)
Raise(r, e) ==
  /\ err' = [err EXCEPT ![r] = e]
  /\ pc' = [pc EXCEPT ![r] = "finally"]

\* lines 238-241: the loop begins a cycle
start_auto_scraper(r) ==
  /\ pc[r] = "call"
  /\ cycles < MaxCycles
  /\ cycles' = cycles + 1
  /\ pc' = [pc EXCEPT ![r] = "setup"]
  /\ BeginCycle(r)
  /\ UNCHANGED << modVars, localVars, err, csvFile, jsonFile, readVars, published, lastGood >>

\* lines 129-132 and 74-109
setup_chrome_driver(r) ==
  /\ pc[r] = "setup"
  /\ \E ok \in BOOLEAN :
       IF ok
       THEN /\ driver' = [driver EXCEPT ![r] = TRUE]
            /\ attempt' = [attempt EXCEPT ![r] = 0]
            /\ pc' = [pc EXCEPT ![r] = "load"]
            /\ UNCHANGED err
       ELSE /\ Raise(r, "setup_error")
            /\ UNCHANGED << driver, attempt >>
  /\ UNCHANGED << modVars, sensor_data, chunks, woff, csvFile, jsonFile, cycles, readVars,
                  ran, quits, published, lastGood >>

\* a variant of wait_for_page_load whose test for the last attempt is off by
\* one, so that a fourth attempt is made
wait_for_page_load_OneMore(r) ==
  /\ pc[r] = "load"
  /\ \E ok \in BOOLEAN :
       IF ok
       THEN /\ pc' = [pc EXCEPT ![r] = "extract"]
            /\ UNCHANGED << attempt, err >>
       ELSE IF attempt[r] = max_retries
       THEN /\ Raise(r, "load_error")
            /\ UNCHANGED attempt
       ELSE /\ attempt' = [attempt EXCEPT ![r] = attempt[r] + 1]
            /\ UNCHANGED << pc, err >>
  /\ UNCHANGED << modVars, driver, sensor_data, chunks, woff, csvFile, jsonFile, cycles,
                  readVars, ran, quits, published, lastGood >>

\* lines 111-126 and 135-136: one attempt of the retry loop
wait_for_page_load(r) ==
  /\ pc[r] = "load"
  /\ \E ok \in BOOLEAN :
       IF ok
       THEN /\ pc' = [pc EXCEPT ![r] = "extract"]
            /\ UNCHANGED << attempt, err >>
       ELSE IF attempt[r] = max_retries - 1
       THEN /\ Raise(r, "load_error")
            /\ UNCHANGED attempt
       ELSE /\ attempt' = [attempt EXCEPT ![r] = attempt[r] + 1]
            /\ UNCHANGED << pc, err >>
  /\ UNCHANGED << modVars, driver, sensor_data, chunks, woff, csvFile, jsonFile, cycles,
                  readVars, ran, quits, published, lastGood >>

\* a variant of extract_rows that starts save_csv before it tests for no rows
extract_rows_SaveFirst(r) ==
  /\ pc[r] = "extract"
  /\ \E rows \in Pages :
       IF rows = <<>>
       THEN /\ Raise(r, "empty")
            /\ csvFile' = FileOf(<<>>)
            /\ ran' = [ran EXCEPT ![r] = @ \cup {"save_csv"}]
            /\ UNCHANGED quits
            /\ UNCHANGED sensor_data
       ELSE /\ sensor_data' = [sensor_data EXCEPT ![r] = rows]
            /\ pc' = [pc EXCEPT ![r] = "save"]
            /\ UNCHANGED << err, csvFile, ran, quits >>
  /\ UNCHANGED << modVars, driver, attempt, chunks, woff, jsonFile, cycles,
                  readVars, published, lastGood >>

\* lines 138-158: the rows of the page; no row raises ValueError
extract_rows(r) ==
  /\ pc[r] = "extract"
  /\ \E rows \in Pages :
       IF rows = <<>>
       THEN /\ Raise(r, "empty")
            /\ UNCHANGED sensor_data
       ELSE /\ sensor_data' = [sensor_data EXCEPT ![r] = rows]
            /\ pc' = [pc EXCEPT ![r] = "save"]
            /\ UNCHANGED err
  /\ UNCHANGED << modVars, driver, attempt, chunks, woff, csvFile, jsonFile, cycles,
                  readVars, ran, quits, published, lastGood >>

\* lines 159, 172-174: to_csv opens the file for writing, which truncates it
save_csv_open(r) ==
  /\ pc[r] = "save"
  /\ csvFile' = FileOf(<<>>)
  /\ ran' = [ran EXCEPT ![r] = @ \cup {"save_csv"}]
  /\ UNCHANGED quits
  /\ pc' = [pc EXCEPT ![r] = "save_write"]
  /\ UNCHANGED << modVars, localVars, err, jsonFile, cycles, readVars,
                  published, lastGood >>

\* line 174: the rows are written, or the write fails
save_csv_write(r) ==
  /\ pc[r] = "save_write"
  /\ \E ok \in BOOLEAN :
       IF ok
       THEN /\ csvFile' = FileOf(sensor_data[r])
            /\ pc' = [pc EXCEPT ![r] = "convert"]
            /\ UNCHANGED err
       ELSE /\ Raise(r, "csv_error")
            /\ UNCHANGED csvFile
  /\ UNCHANGED << modVars, localVars, jsonFile, cycles, readVars,
                  ran, quits, published, lastGood >>

\* a variant of convert_csv_to_json that extends the lists of the snapshot
\* already in sensor_data.json instead of starting from empty lists
convert_csv_to_json_Merge(r) ==
  /\ pc[r] = "convert"
  /\ ran' = [ran EXCEPT ![r] = @ \cup {"convert_csv_to_json"}]
  /\ UNCHANGED quits
  /\ IF csvFile.content = <<>> \/ StrAccessorRaises(read_csv(csvFile.content))
     THEN /\ Raise(r, "convert_error")
          /\ UNCHANGED chunks
     ELSE /\ LET old == IF jsonFile.exists /\ ~JSONDecodeError(jsonFile.content)
                        THEN json_load(jsonFile.content) ELSE EmptyDocument
                 new == categorized_data(read_csv(csvFile.content))
             IN chunks' = [chunks EXCEPT ![r] =
                             json_dump([c \in CategorySet |-> old[c] \o new[c]])]
          /\ pc' = [pc EXCEPT ![r] = "open"]
          /\ UNCHANGED err
  /\ UNCHANGED << modVars, driver, attempt, sensor_data, woff, csvFile, jsonFile, cycles,
                  readVars, published, lastGood >>

\* lines 160, 178-221: read the CSV and compute categorized_data
convert_csv_to_json(r) ==
  /\ pc[r] = "convert"
  /\ ran' = [ran EXCEPT ![r] = @ \cup {"convert_csv_to_json"}]
  /\ UNCHANGED quits
  /\ IF csvFile.content = <<>> \/ StrAccessorRaises(read_csv(csvFile.content))
     THEN /\ Raise(r, "convert_error")
          /\ UNCHANGED chunks
     ELSE /\ chunks' = [chunks EXCEPT ![r] = json_dump(categorized_data(read_csv(csvFile.content)))]
          /\ pc' = [pc EXCEPT ![r] = "open"]
          /\ UNCHANGED err
  /\ UNCHANGED << modVars, driver, attempt, sensor_data, woff, csvFile, jsonFile, cycles,
                  readVars, published, lastGood >>

\* line 222: open(SENSOR_DATA_FILE, "w") creates or truncates the file
json_open(r) ==
  /\ pc[r] = "open"
  /\ jsonFile' = FileOf(<<>>)
  /\ woff' = [woff EXCEPT ![r] = 0]
  /\ ran' = [ran EXCEPT ![r] = @ \cup {"open"}]
  /\ UNCHANGED quits
  /\ pc' = [pc EXCEPT ![r] = "dump"]
  /\ rquiet' = FALSE
  /\ UNCHANGED << modVars, driver, attempt, sensor_data, chunks, err, csvFile, cycles,
                  rpc, rbuf, reads, response, rpub, published, lastGood >>

\* a write at the file object's own offset: it overwrites, appends, or leaves
\* a hole when another writer has truncated the file meanwhile
WriteAt(content, p, c) ==
  IF p <= Len(content) THEN [content EXCEPT ![p] = c]
  ELSE content \o [k \in 1..(p - Len(content) - 1) |-> Hole] \o << c >>

\* line 223: json.dump writes the next chunk, or the write fails; after the
\* last chunk the file is closed and convert_csv_to_json returns (224, 161)
json_write(r) ==
  /\ pc[r] = "dump"
  /\ \E ok \in BOOLEAN :
       IF ok
       THEN /\ jsonFile' = FileOf(WriteAt(jsonFile.content, woff[r] + 1, chunks[r][woff[r] + 1]))
            /\ woff' = [woff EXCEPT ![r] = woff[r] + 1]
            /\ IF woff[r] + 1 = NumChunks
               THEN /\ pc' = [pc EXCEPT ![r] = "finally"]
                    /\ published' = published \cup { json_load(chunks[r]) }
               ELSE UNCHANGED << pc, published >>
            /\ lastGood' = IF JSONDecodeError(jsonFile'.content) THEN lastGood ELSE jsonFile'
            /\ UNCHANGED err
       ELSE /\ Raise(r, "persist_error")
            /\ UNCHANGED << jsonFile, woff, published, lastGood >>
  /\ rquiet' = FALSE
  /\ UNCHANGED << modVars, driver, attempt, sensor_data, chunks, csvFile, cycles,
                  rpc, rbuf, reads, response, rpub, ran, quits >>

\* driver.quit() of line 168 raised: a variant of QuitRaised in which the
\* exception leaves the finally block and replaces the one being re-raised
QuitRaised_Escapes(e) == "quit_error"

\* lines 167-170: an exception of driver.quit() is logged and swallowed, so
\* the exception e of lines 162-164 (or none) goes on to the caller
QuitRaised(e) == e

\* lines 162-170: the exception, if any, has been logged and re-raised; the
\* finally block quits the driver if there is one, and the call returns or
\* the exception passes to the caller (line 242, or line 38)
scrape_finally(r) ==
  /\ pc[r] = "finally"
  /\ IF driver[r]
     THEN /\ quits' = [quits EXCEPT ![r] = @ + 1]
          /\ \E ok \in BOOLEAN :
               err' = [err EXCEPT ![r] = IF ok THEN @ ELSE QuitRaised(@)]
     ELSE UNCHANGED << quits, err >>
  /\ driver' = [driver EXCEPT ![r] = FALSE]
  /\ attempt' = [attempt EXCEPT ![r] = 0]
  /\ sensor_data' = [sensor_data EXCEPT ![r] = <<>>]
  /\ chunks' = [chunks EXCEPT ![r] = <<>>]
  /\ woff' = [woff EXCEPT ![r] = 0]
  /\ IF IsLoop(r)
     THEN /\ pc' = [pc EXCEPT ![r] = "sleep"]
          /\ UNCHANGED mpc
     ELSE /\ pc' = [pc EXCEPT ![r] = "idle"]
          /\ mpc' = [mpc EXCEPT ![ModOf(r)] = "defs"]
  /\ ran' = [ran EXCEPT ![r] = {}]
  /\ UNCHANGED << entry, bound, bootlog, csvFile, jsonFile, cycles, readVars,
                  published, lastGood >>

\* a variant of sleep in which the loop has no except clause: the exception
\* of a failed cycle ends start_auto_scraper and with it the thread
sleep_Uncaught(r) ==
  /\ pc[r] = "sleep"
  /\ err' = [err EXCEPT ![r] = ""]
  /\ quits' = [quits EXCEPT ![r] = 0]
  /\ pc' = [pc EXCEPT ![r] = IF err[r] = "" THEN "call" ELSE "idle"]
  /\ UNCHANGED << modVars, localVars, csvFile, jsonFile, cycles, readVars,
                  ran, published, lastGood >>

\* lines 242-245: the loop catches and logs the exception of the cycle, if
\* any, and sleeps 60 seconds before the next iteration
sleep(r) ==
  /\ pc[r] = "sleep"
  /\ err' = [err EXCEPT ![r] = ""]
  /\ quits' = [quits EXCEPT ![r] = 0]
  /\ pc' = [pc EXCEPT ![r] = "call"]
  /\ UNCHANGED << modVars, localVars, csvFile, jsonFile, cycles, readVars,
                  ran, published, lastGood >>

(***************************************************************************)
(* get_sensor_data (lines 226-235).  The handler is a coroutine without an *)
(* await, so the event loop runs one request at a time; f.read() inside    *)
(* json.load is a loop of read calls that ends at the first empty read,    *)
(* and a read may return less than the file holds.                         *)
(***************************************************************************)
\* line 229
get_sensor_data_open ==
  /\ Serving
  /\ rpc = "idle"
  /\ reads < MaxReads
  /\ IF jsonFile.exists
     THEN /\ rpc' = "reading"
          /\ rbuf' = <<>>
          /\ rpub' = (published # {})
          /\ rquiet' = (jsonFile = lastGood)
          /\ UNCHANGED << reads, response >>
     ELSE /\ response' = Response("fallback", EmptyDocument, FALSE, <<>>, published # {})
          /\ reads' = reads + 1
          /\ UNCHANGED << rpc, rbuf, rpub, rquiet >>
  /\ UNCHANGED << modVars, pc, localVars, err, csvFile, jsonFile, cycles,
                  ran, quits, published, lastGood >>

\* line 230: a read call returns bytes from the reader's offset
get_sensor_data_read ==
  /\ rpc = "reading"
  /\ Len(jsonFile.content) > Len(rbuf)
  /\ \E n \in 1..(Len(jsonFile.content) - Len(rbuf)) :
       rbuf' = rbuf \o SubSeq(jsonFile.content, Len(rbuf) + 1, Len(rbuf) + n)
  /\ UNCHANGED << modVars, pc, localVars, err, csvFile, jsonFile, cycles,
                  rpc, reads, response, rpub, rquiet, ran, quits, published, lastGood >>

\* lines 230-235: the read call at end of file ends f.read(); the text is
\* decoded and returned, or the fallback is returned on JSONDecodeError
get_sensor_data_return ==
  /\ rpc = "reading"
  /\ Len(jsonFile.content) <= Len(rbuf)
  /\ response' = IF JSONDecodeError(rbuf)
                 THEN Response("fallback", EmptyDocument, TRUE, rbuf, rpub)
                 ELSE Response("data", json_load(rbuf), TRUE, rbuf, rpub)
  /\ rpc' = "idle"
  /\ rbuf' = <<>>
  /\ rpub' = FALSE
  /\ rquiet' = FALSE
  /\ reads' = reads + 1
  /\ UNCHANGED << modVars, pc, localVars, err, csvFile, jsonFile, cycles,
                  ran, quits, published, lastGood >>

Next ==
  \/ \E i \in Mods : bootstrap(i)
  \/ \E i \in Mods : definitions(i)
  \/ \E i \in Mods : scraper_thread(i)
  \/ \E i \in Mods : main(i)
  \/ \E r \in Runners : start_auto_scraper(r)
  \/ \E r \in Runners : setup_chrome_driver(r)
  \/ \E r \in Runners : wait_for_page_load(r)
  \/ \E r \in Runners : extract_rows(r)
  \/ \E r \in Runners : save_csv_open(r)
  \/ \E r \in Runners : save_csv_write(r)
  \/ \E r \in Runners : convert_csv_to_json(r)
  \/ \E r \in Runners : json_open(r)
  \/ \E r \in Runners : json_write(r)
  \/ \E r \in Runners : scrape_finally(r)
  \/ \E r \in Runners : sleep(r)
  \/ get_sensor_data_open
  \/ get_sensor_data_read
  \/ get_sensor_data_return

Spec == Init /\ [][Next]_vars

(***************************************************************************)
(* The same process under fair scheduling: the interpreter goes on         *)
(* executing the module-level code, and the thread of line 248 is          *)
(* scheduled again and again (every call of the cycle returns or raises,   *)
(* and time.sleep(60) returns).  Requests may or may not arrive; the       *)
(* handler keeps nothing between requests, so the behaviours start with    *)
(* one request left to arrive, at any moment.                              *)
(***************************************************************************)
InitFair ==
  /\ entry = "import"
  /\ mpc = [i \in Mods |-> IF i = 1 THEN "boot" ELSE "idle"]
  /\ bound = [i \in Mods |-> FALSE]
  /\ bootlog = [i \in Mods |-> "none"]
  /\ InitFiles({PageA})
  /\ pc = [r \in Runners |-> "idle"]
  /\ driver = [r \in Runners |-> FALSE]
  /\ attempt = [r \in Runners |-> 0]
  /\ sensor_data = [r \in Runners |-> <<>>]
  /\ chunks = [r \in Runners |-> <<>>]
  /\ woff = [r \in Runners |-> 0]
  /\ err = [r \in Runners |-> ""]
  /\ ran = [r \in Runners |-> {}]
  /\ quits = [r \in Runners |-> 0]
  /\ lastGood = jsonFile
  /\ published = {}
  /\ cycles = 0
  /\ rpc = "idle" /\ rbuf = <<>> /\ reads = MaxReads - 1 /\ response = NoResponse
  /\ rpub = FALSE /\ rquiet = FALSE

ModuleStep(i) ==
  bootstrap(i) \/ definitions(i) \/ scraper_thread(i) \/ main(i)

RunnerStep(r) ==
  \/ start_auto_scraper(r)
  \/ setup_chrome_driver(r)
  \/ wait_for_page_load(r)
  \/ extract_rows(r)
  \/ save_csv_open(r)
  \/ save_csv_write(r)
  \/ convert_csv_to_json(r)
  \/ json_open(r)
  \/ json_write(r)
  \/ scrape_finally(r)
  \/ sleep(r)

Fairness ==
  /\ \A i \in Mods : WF_vars(ModuleStep(i))
  /\ \A r \in Runners : WF_vars(RunnerStep(r))

SpecFair == InitFair /\ [][Next]_vars /\ Fairness

(***************************************************************************)
(* The process started as a script (python SensorDataScraper.py): the      *)
(* module-level code and the refresh loops, without read requests.         *)
(***************************************************************************)
InitMain == Start("script")

NextMain ==
  \/ \E i \in Mods : bootstrap(i)
  \/ \E i \in Mods : definitions(i)
  \/ \E i \in Mods : scraper_thread(i)
  \/ \E i \in Mods : main(i)
  \/ \E r \in Runners : start_auto_scraper(r)
  \/ \E r \in Runners : setup_chrome_driver(r)
  \/ \E r \in Runners : wait_for_page_load(r)
  \/ \E r \in Runners : extract_rows(r)
  \/ \E r \in Runners : save_csv_open(r)
  \/ \E r \in Runners : save_csv_write(r)
  \/ \E r \in Runners : convert_csv_to_json(r)
  \/ \E r \in Runners : json_open(r)
  \/ \E r \in Runners : json_write(r)
  \/ \E r \in Runners : scrape_finally(r)
  \/ \E r \in Runners : sleep(r)

SpecMain == InitMain /\ [][NextMain]_vars

(***************************************************************************)
(* The normalizer on its own: one call of save_csv and convert_csv_to_json *)
(* (lines 159-160) for every sequence of raw rows up to MaxRows.           *)
(***************************************************************************)
RowInputs == SeqsUpTo(RawRowSet, MaxRows) \ { <<>> }

InitNorm ==
  /\ entry = "import"
  /\ mpc = [i \in Mods |-> IF i = 1 THEN "done" ELSE "idle"]
  /\ bound = [i \in Mods |-> i = 1]
  /\ bootlog = [i \in Mods |-> "none"]
  /\ InitFiles({PageA})
  /\ \E rows \in RowInputs :
       /\ pc = [r \in Runners |-> IF r = "loop1" THEN "save" ELSE "idle"]
       /\ sensor_data = [r \in Runners |-> IF r = "loop1" THEN rows ELSE <<>>]
  /\ driver = [r \in Runners |-> r = "loop1"]
  /\ attempt = [r \in Runners |-> 0]
  /\ chunks = [r \in Runners |-> <<>>]
  /\ woff = [r \in Runners |-> 0]
  /\ err = [r \in Runners |-> ""]
  /\ ran = [r \in Runners |-> {}]
  /\ quits = [r \in Runners |-> 0]
  /\ lastGood = jsonFile
  /\ published = {}
  /\ cycles = 1
  /\ rpc = "idle" /\ rbuf = <<>> /\ reads = 0 /\ response = NoResponse /\ rpub = FALSE
  /\ rquiet = FALSE

\* the number of calls of convert_csv_to_json that are compared
Twice == 2

\* line 160 once more: convert_csv_to_json() is called again on the CSV file
\* as it stands, after a call that returned
convert_again(r) ==
  /\ pc[r] = "finally" /\ err[r] = "" /\ "open" \in ran[r]
  /\ cycles < Twice
  /\ cycles' = cycles + 1
  /\ pc' = [pc EXCEPT ![r] = "convert"]
  /\ UNCHANGED << modVars, localVars, err, csvFile, jsonFile, readVars, ran, quits,
                  published, lastGood >>

NextNorm ==
  \/ save_csv_open("loop1")
  \/ save_csv_write("loop1")
  \/ convert_csv_to_json("loop1")
  \/ json_open("loop1")
  \/ json_write("loop1")
  \/ convert_again("loop1")

SpecNorm == InitNorm /\ [][NextNorm]_vars

(***************************************************************************)
(* Properties of the normalizer, checked under SpecNorm.                   *)
(***************************************************************************)
\* the call of lines 159-160 has returned: the cycle's snapshot is written
Converted(r) == pc[r] = "finally" /\ err[r] = "" /\ "open" \in ran[r]

\* the snapshot in sensor_data.json and the DataFrame it was computed from
WrittenDoc == json_load(jsonFile.content)
PersistedRows == read_csv(csvFile.content)

\* how many records of a sequence carry the sensor name
Occurrences(records, sensor_name) ==
  Cardinality({ i \in 1..Len(records) : records[i].name = sensor_name })

\* the rows whose name equals the expected name ignoring case
RowsNamed(df, sensor_name) ==
  { i \in 1..Len(df) : df[i].name.t = "str" /\ casefold(df[i].name.v) = casefold(sensor_name) }

\* C1: whenever convert_csv_to_json completes, every sensor name of every one
\* of the five registry lists occurs exactly once in that category's sequence
\* of the written snapshot.
C1_EveryExpectedSensorOnce ==
  Converted("loop1") =>
    \A c \in CategorySet : \A k \in 1..Len(SENSOR_CATEGORIES[c]) :
      Occurrences(WrittenDoc[c], SENSOR_CATEGORIES[c][k]) = 1

\* the current value carries the unit marker
HasUnitMarker(current_value) == current_value.t = "str" /\ current_value.v \in StringsWithM

\* the rows named in both the street_flood_sensors and flood_risk_index lists
InBothStreetLists(row) ==
  /\ row.name.t = "str"
  /\ row.name.v \in Range(SENSOR_CATEGORIES["street_flood_sensors"])
  /\ row.name.v \in Range(SENSOR_CATEGORIES["flood_risk_index"])

\* C9: each row named in both street lists yields exactly one record across
\* the two categories: the street_flood_sensors sequence is, in row order, one
\* four-field record per such row with the unit marker, and the
\* flood_risk_index sequence one two-field record per such row without it.
C9_UnitMarkerTieBreak ==
  Converted("loop1") =>
    LET df == PersistedRows
        street == SelectSeq(df, LAMBDA row : InBothStreetLists(row) /\ HasUnitMarker(row.current))
        index == SelectSeq(df, LAMBDA row : InBothStreetLists(row) /\ ~HasUnitMarker(row.current))
    IN /\ WrittenDoc["street_flood_sensors"] =
            [ i \in 1..Len(street) |->
                [name |-> street[i].name.v, current |-> street[i].current,
                 normal |-> street[i].normal, description |-> street[i].description] ]
       /\ WrittenDoc["flood_risk_index"] =
            [ i \in 1..Len(index) |->
                [name |-> index[i].name.v, current |-> index[i].current] ]

\* C9 witness: a snapshot written from a row with the marker and a row without
\* it, both named in the two street lists.
C9_Witness ==
  /\ Converted("loop1")
  /\ \E i, j \in 1..Len(PersistedRows) :
       /\ InBothStreetLists(PersistedRows[i]) /\ HasUnitMarker(PersistedRows[i].current)
       /\ InBothStreetLists(PersistedRows[j]) /\ ~HasUnitMarker(PersistedRows[j].current)
  /\ Len(WrittenDoc["street_flood_sensors"]) = 1
  /\ Len(WrittenDoc["flood_risk_index"]) = 1

\* C10: an expected flood_sensors name without a matching row has the record
\* {name, 0.0, "N/A", "N/A"} in the flood_sensors sequence; one with a matching
\* row has a record carrying a matching row's current value, normal level and
\* description.
C10_FloodSensorSentinel ==
  Converted("loop1") =>
    \A k \in 1..Len(SENSOR_CATEGORIES["flood_sensors"]) :
      LET X == SENSOR_CATEGORIES["flood_sensors"][k]
          df == PersistedRows
          records == Range(WrittenDoc["flood_sensors"])
      IN IF RowsNamed(df, X) = {}
         THEN [name |-> X, current |-> Num("0.0"),
               normal |-> Str("N/A"), description |-> Str("N/A")] \in records
         ELSE \E i \in RowsNamed(df, X) :
                [name |-> X, current |-> df[i].current,
                 normal |-> df[i].normal, description |-> df[i].description] \in records

\* C10 witness: a snapshot holding a sentinel for one flood sensor and a
\* record filled from a row (spelled in another case) for another.
C10_Witness ==
  /\ Converted("loop1")
  /\ \E i \in 1..Len(PersistedRows) : PersistedRows[i].name = Str("north fairview")
  /\ WrittenDoc["flood_sensors"][1].name = "North Fairview"
  /\ WrittenDoc["flood_sensors"][1].current = Str("0.35m")
  /\ WrittenDoc["flood_sensors"][2] =
       [name |-> "Batasan-San Mateo", current |-> Num("0.0"),
        normal |-> Str("N/A"), description |-> Str("N/A")]

(***************************************************************************)
(* Properties of the running process, checked under Spec (and SpecMain for *)
(* the process started as a script).                                       *)
(***************************************************************************)
\* the complete snapshots the program can compute from the pages of the model
WholeSnapshots ==
  { Snapshot(rows) :
      rows \in { p \in Pages \cup {PageA} : p # <<>> /\ ~StrAccessorRaises(read_csv(p)) } }

\* C2: a read never returns a document that mixes the category data of two
\* snapshots, and never a partial one: a returned document has all five
\* categories, and one parsed from the file is one whole snapshot.
C2_NoMixedRead ==
  response.kind # "none" =>
    /\ DOMAIN response.doc = CategorySet
    /\ response.kind = "data" => response.doc \in WholeSnapshots

\* C3: once a cycle has published a snapshot, every read that begins later
\* returns a snapshot a successful cycle published, never the fallback.
C3_ReadsServeLastGood ==
  response.pub => response.kind = "data" /\ response.doc \in published

\* the failures of the extraction part of a cycle (lines 132-157)
ExtractionErrors == { "setup_error", "load_error", "empty" }

ExtractionFailed(r) == pc[r] = "finally" /\ err[r] \in ExtractionErrors

\* runner r takes the step
StepOf(r) == pc'[r] # pc[r] \/ attempt'[r] # attempt[r]

\* C4: a cycle whose extraction fails has run neither save_csv nor
\* convert_csv_to_json, and none of its steps, up to and including the
\* handling of the failure, changes sensor_data.json or sensor_data.csv.
C4_FailedExtractionTouchesNothing ==
  /\ [](\A r \in Runners : ExtractionFailed(r) => ran[r] = {})
  /\ [][\A r \in Runners :
          (pc[r] \in {"setup", "load", "extract"} \/ ExtractionFailed(r)) /\ StepOf(r)
            => jsonFile' = jsonFile /\ csvFile' = csvFile]_vars

\* C4 witness: an extraction failure in a cycle that follows a published
\* snapshot, which the file still holds.
C4_Witness ==
  \E r \in Runners :
    /\ ExtractionFailed(r)
    /\ published # {}
    /\ jsonFile = lastGood
    /\ json_load(jsonFile.content) \in published

\* C5: a cycle that fails with a write error after sensor_data.json was
\* opened for writing leaves the previously complete snapshot in the file.
C5_WriteErrorKeepsPrior ==
  \A r \in Runners :
    pc[r] = "finally" /\ err[r] = "persist_error" /\ lastGood.exists => jsonFile = lastGood

\* the runner is inside scrape_sensor_data
InCycle(r) ==
  pc[r] \in {"setup", "load", "extract", "save", "save_write", "convert", "open", "dump", "finally"}

\* C6: at most one scrape_sensor_data is in progress at any time and at most
\* one refresh-loop worker exists.
C6_SingleRefreshWorker ==
  /\ Cardinality({ r \in Runners : InCycle(r) }) <= 1
  /\ Cardinality({ r \in Runners : IsLoop(r) /\ pc[r] # "idle" }) <= 1

\* C7: when sensor_data.json is absent at start-up, the bootstrap has run
\* scrape_sensor_data by the time the route is registered and the loop starts.
C7_BootstrapRefreshes ==
  \A i \in Mods : RouteRegistered(i) /\ bootlog[i] # "found" => bootlog[i] = "scraped"

\* the text is one whole JSON document
WholeDocumentText(text) ==
  /\ Len(text) = Len(Categories)
  /\ \A i \in 1..Len(text) : text[i].key = Categories[i]

\* C8: a read signals no error; it returns the document of five empty
\* sequences when the file is absent or the text read is not a whole JSON
\* document, and otherwise the parsed text unchanged.
C8_ReadDegradesToEmpty ==
  response.kind # "none" =>
    IF ~response.exists \/ ~WholeDocumentText(response.text)
    THEN /\ response.kind = "fallback"
         /\ response.doc = [c \in CategorySet |-> <<>>]
    ELSE /\ response.kind = "data"
         /\ DOMAIN response.doc = CategorySet
         /\ \A i \in 1..Len(response.text) :
              response.doc[response.text[i].key] = response.text[i].val

\* C8 witness: a read that found the file partly written returned the
\* fallback document.
C8_Witness ==
  /\ response.kind = "fallback"
  /\ response.exists
  /\ response.text # <<>>
  /\ Len(response.text) < Len(Categories)
  /\ response.doc = [c \in CategorySet |-> <<>>]

(***************************************************************************)
(* Properties of the second pass (lines 197-221), checked under SpecNorm.  *)
(***************************************************************************)
\* the categories of line 198 and the expected names of one of them
GapFilledCategories == { c \in CategorySet : GapFilled(c) }
ExpectedNames(c) == Range(SENSOR_CATEGORIES[c])

\* C11: in rain_gauge, flood_sensors and earthquake_sensors, an expected name
\* that equals the name of some row ignoring case has a record under the
\* registry's spelling that carries the current value of such a row, and the
\* sequence holds no sentinel record for that name.
C11_CaseInsensitiveMatch ==
  Converted("loop1") =>
    \A c \in GapFilledCategories : \A X \in ExpectedNames(c) :
      LET df == PersistedRows
          records == Range(WrittenDoc[c])
      IN RowsNamed(df, X) # {} =>
           /\ \E rec \in records : \E i \in RowsNamed(df, X) :
                 rec.name = X /\ rec.current = df[i].current
           /\ SentinelEntry(c, X) \notin records

\* C11 witness: a snapshot written from rows that name the rain gauge only as
\* "qcpu", with its record under "QCPU".
C11_Witness ==
  /\ Converted("loop1")
  /\ \E i \in 1..Len(PersistedRows) : PersistedRows[i].name = Str("qcpu")
  /\ \A i \in 1..Len(PersistedRows) : PersistedRows[i].name # Str("QCPU")
  /\ \E rec \in Range(WrittenDoc["rain_gauge"]) : \E i \in 1..Len(PersistedRows) :
       rec.name = "QCPU" /\ rec.current = PersistedRows[i].current
  /\ SentinelEntry("rain_gauge", "QCPU") \notin Range(WrittenDoc["rain_gauge"])

\* C12: when a second call of convert_csv_to_json on the unchanged
\* CSV file returns, sensor_data.json holds exactly the content the previous
\* call left in it, and every snapshot a call writes is the one computed from
\* the CSV file alone, whatever sensor_data.json held before the first call.
C12_ConvertIdempotent ==
  /\ [](Converted("loop1") => jsonFile = FileOf(json_dump(Snapshot(csvFile.content))))
  /\ [][ (cycles = Twice /\ pc["loop1"] = "dump" /\ Converted("loop1")')
           => jsonFile' = lastGood ]_vars

\* C12 witness: the second call has returned, over a snapshot that existed
\* before the first call.
C12_Witness ==
  /\ Converted("loop1")
  /\ cycles = Twice
  /\ Cardinality(published) = 1
  /\ jsonFile = lastGood

\* C17: every expected street_flood_sensors name without a matching row has a
\* record in the street_flood_sensors sequence whose current value is the
\* string "0.0m".
C17_StreetSentinel ==
  Converted("loop1") =>
    \A X \in ExpectedNames("street_flood_sensors") :
      RowsNamed(PersistedRows, X) = {} =>
        \E rec \in Range(WrittenDoc["street_flood_sensors"]) :
          rec.name = X /\ rec.current = Str("0.0m")

\* the names of a sequence of records, in order
NamesOf(records) == [ i \in 1..Len(records) |-> records[i].name ]

\* the rows the first pass files under the category, in row order
RowsFiledUnder(df, category) ==
  SelectSeq(df, LAMBDA row : /\ row.name.t = "str"
                             /\ CategoryOf(row.current) = category
                             /\ row.name.v \in ExpectedNames(category))

\* C18: the rain_gauge, flood_sensors and earthquake_sensors sequences name
\* the expected sensors in registry order; the street_flood_sensors and
\* flood_risk_index sequences name the rows filed under them in the order of
\* the rows.
C18_SequenceOrder ==
  Converted("loop1") =>
    \A c \in CategorySet :
      NamesOf(WrittenDoc[c]) =
        IF GapFilled(c) THEN SENSOR_CATEGORIES[c]
        ELSE [ i \in 1..Len(RowsFiledUnder(PersistedRows, c)) |->
                 RowsFiledUnder(PersistedRows, c)[i].name.v ]

\* C18 witness: a snapshot whose street_flood_sensors sequence names two
\* different sensors in the order of their rows, against registry order.
C18_Witness ==
  /\ Converted("loop1")
  /\ NamesOf(WrittenDoc["street_flood_sensors"]) = << "Holy Spirit", "Phil-Am" >>
  /\ NamesOf(WrittenDoc["rain_gauge"]) = SENSOR_CATEGORIES["rain_gauge"]

\* the least element of a non-empty set of row indices
FirstOf(S) == CHOOSE i \in S : \A j \in S : i <= j

\* C19: in rain_gauge, flood_sensors and earthquake_sensors, an expected name
\* matched by several rows has exactly one record, and the record carries the
\* values of the first of those rows.
C19_FirstDuplicateWins ==
  Converted("loop1") =>
    \A c \in GapFilledCategories : \A X \in ExpectedNames(c) :
      LET df == PersistedRows
          rows == RowsNamed(df, X)
      IN Cardinality(rows) >= 2 =>
           /\ Occurrences(WrittenDoc[c], X) = 1
           /\ \A rec \in Range(WrittenDoc[c]) :
                 rec.name = X =>
                   /\ rec.current = df[FirstOf(rows)].current
                   /\ c = "flood_sensors" =>
                        /\ rec.normal = df[FirstOf(rows)].normal
                        /\ rec.description = df[FirstOf(rows)].description

\* C19 witness: a snapshot written from two rows of the same flood sensor,
\* spelled differently and with different values, whose record carries the
\* first row's values.
C19_Witness ==
  /\ Converted("loop1")
  /\ Len(PersistedRows) = 2
  /\ PersistedRows[1].name = Str("north fairview")
  /\ PersistedRows[2].name = Str("North Fairview")
  /\ PersistedRows[1].current # PersistedRows[2].current
  /\ PersistedRows[1].normal # PersistedRows[2].normal
  /\ \E rec \in Range(WrittenDoc["flood_sensors"]) :
       /\ rec.name = "North Fairview"
       /\ rec.current = PersistedRows[1].current
       /\ rec.normal = PersistedRows[1].normal

(***************************************************************************)
(* Properties of the refresh cycle and of the loop around it.              *)
(***************************************************************************)
\* C15: attempt k of wait_for_page_load is made with k < max_retries, so a
\* cycle makes at most max_retries attempts; a successful attempt goes on to
\* the extraction without another attempt; a failed attempt is followed by
\* the next one, and the failed last attempt raises and ends the cycle; no
\* attempt is made after that before the next cycle sets up its driver.
C15_BoundedPageLoad ==
  /\ [](\A r \in Runners : attempt[r] \in 0..(max_retries - 1))
  /\ [][ \A r \in Runners :
          /\ (pc[r] = "load" /\ << pc[r], attempt[r] >> # << pc'[r], attempt'[r] >>) =>
                \/ pc'[r] = "extract" /\ attempt'[r] = attempt[r] /\ err'[r] = ""
                \/ /\ pc'[r] = "load" /\ attempt'[r] = attempt[r] + 1
                   /\ attempt[r] < max_retries - 1 /\ err'[r] = ""
                \/ /\ pc'[r] = "finally" /\ err'[r] = "load_error"
                   /\ attempt[r] = max_retries - 1
          /\ (pc[r] # "load" /\ pc'[r] = "load") =>
                pc[r] = "setup" /\ attempt'[r] = 0 ]_vars

\* C15 witness: a cycle failed by the third failed attempt.
C15_Witness ==
  \E r \in Runners :
    pc[r] = "finally" /\ err[r] = "load_error" /\ attempt[r] = max_retries - 1

\* C20: when a call of scrape_sensor_data ends, by returning or by re-raising,
\* driver.quit() has been called exactly once if setup_chrome_driver had
\* returned a driver and not at all otherwise, and never before the end of the
\* call; whether or not the quit raised, the exception that leaves the call is
\* the one the cycle had raised, or none.
C20_DriverQuitOnce ==
  /\ [](\A r \in Runners : pc[r] \notin {"sleep", "idle"} => quits[r] = 0)
  /\ [][ \A r \in Runners :
          (pc[r] = "finally" /\ pc'[r] # "finally") =>
             /\ quits'[r] = IF driver[r] THEN 1 ELSE 0
             /\ err'[r] = err[r] ]_vars

\* C20 witness: a cycle that failed after the driver was created has ended
\* with one quit and its own exception.
C20_Witness ==
  \E r \in Runners : pc[r] = "sleep" /\ quits[r] = 1 /\ err[r] = "load_error"

\* the threads that run start_auto_scraper
LoopRunners == { r \in Runners : IsLoop(r) }

\* C14: a loop thread, once started, never ends: from the end of a cycle it
\* goes to the wait only, whatever exception the cycle raised, and from the
\* wait to the next iteration only; and under fair scheduling a failed cycle
\* is followed by the start of another cycle (while the model's bound on the
\* number of cycles allows one).
C14_LoopSurvivesFailure ==
  /\ [][ \A r \in LoopRunners :
          /\ pc[r] # "idle" => pc'[r] # "idle"
          /\ pc[r] = "finally" => pc'[r] \in {"finally", "sleep"}
          /\ pc[r] = "sleep" => pc'[r] \in {"sleep", "call"} ]_vars
  /\ \A r \in LoopRunners :
       (pc[r] = "finally" /\ err[r] # "" /\ cycles < MaxCycles) ~> (pc[r] = "setup")

\* C14 witness: the loop is in its wait after a cycle whose write of
\* sensor_data.json failed.
C14_Witness ==
  \E r \in LoopRunners : pc[r] = "sleep" /\ err[r] = "persist_error" /\ cycles < MaxCycles

\* sensor_data.json holds the snapshot computed from the rows R
Fresh(R) == jsonFile = FileOf(json_dump(Snapshot(R)))

\* the cycle of runner r has published the snapshot of the rows it extracted
PublishedOwnRows(r) ==
  pc[r] = "finally" /\ err[r] = "" /\ sensor_data[r] # <<>> /\ Fresh(sensor_data[r])

C16_InitSurvivesBootstrapFailure ==
  /\ (mpc[1] = "boot" /\ ~jsonFile.exists) ~>
       (/\ bootlog[1] \notin {"none", "found"}
        /\ RouteRegistered(1) /\ pc[Loop(1)] # "idle" /\ Serving)
  /\ []((bootlog[1] \notin {"none", "found"} /\ published = {} /\ response.kind # "none") =>
         (response.kind = "fallback" /\ response.doc = EmptyDocument))

\* C16 witness: after the failed bootstrap the module is served, its loop is
\* writing the first snapshot, and a read of the unfinished file was answered
\* with the fallback.
C16_Witness ==
  /\ bootlog[1] = "NameError" /\ Serving /\ RouteRegistered(1)
  /\ pc[Loop(1)] = "dump"
  /\ published = {}
  /\ response.kind = "fallback" /\ response.exists
  /\ response.doc = EmptyDocument

====
